---- MODULE Spec2Model ----
(***************************************************************************)
(* three-emitter: the instanced-attribute buffer allocator of Emitter and  *)
(* EmitterInstance (src/src/Emitter.ts, src/unnamed/part_003).             *)
(*                                                                         *)
(* A typed array is a sequence of numbers (index k of the code is element  *)
(* k + 1 here).  A view handed to an instance is a window (off, len) on    *)
(* the attribute's array, as Float32Array.subarray makes it: it aliases    *)
(* the array and keeps its offset for as long as the instance holds it.    *)
(***************************************************************************)
EXTENDS Integers, Sequences, FiniteSets, TLC

\* ------------------------------------------------------------------ bounds
MaxParticles == 2
MaxInstances == 2
MaxFills == 1
MaxDeclared == 1
MaxClock == 3
MaxPending == 2

\* -------------------------------------------------------------- attributes
\* The attributes the Emitter is constructed with, in declaration order:
\* two InstancedBufferAttributes of capacity maxParticles (item sizes 2 and
\* 1) and one BufferAttribute shorter than maxParticles.
AttrOrder == <<"pos", "rnd", "tex">>
AttrNames == {AttrOrder[k] : k \in 1..Len(AttrOrder)}

\* The keys of geometry.attributes in insertion order: the constructor's
\* attributes, then the one setAttributes adds later.
KeyOrder == AttrOrder \o <<"vel">>

\* Emitter.maxParticles, fixed by the constructor's options.
maxParticles == MaxParticles

\* The length of the BufferAttribute: fewer items than maxParticles.
SharedLen == maxParticles - 1

Min(a, b) == IF a < b THEN a ELSE b
Max(a, b) == IF a > b THEN a ELSE b

MaxLen == 2 * MaxParticles
Zeros == [n \in 0..MaxLen |-> [k \in 1..n |-> 0]]
Iota == [n \in 0..MaxLen |-> [k \in 1..n |-> k]]

VARIABLES
  attributes,       \* Emitter.geometry.attributes: name -> attribute
  instanceCount,    \* Emitter.geometry.instanceCount
  knownInstances,   \* Emitter.knownInstances (a set of instance identities)
  instances,        \* every EmitterInstance constructed so far, by identity
  fills,            \* number of fillAttribute calls made so far
  raised,           \* the error the last call raised, or "none"
  call              \* the last call made: its name, instance and argument

VARIABLES
  autoUpdate,       \* Emitter.autoUpdate
  timestamp,        \* Emitter.timestamp: Date.now() at the last update(), 0 before
  time,             \* material.uniforms.time.value, counted in thousandths
  pending,          \* callbacks update.bind(this) queued by requestAnimationFrame
  now,              \* what Date.now() returns
  first,            \* Date.now() at the first update(), 0 before (history)
  fresh,            \* no update() ran since autoUpdate went from false to true (history)
  late              \* queued callbacks that added time since autoUpdate went false (history)

timing == <<autoUpdate, timestamp, time, pending, now, first, fresh, late>>

vars == <<attributes, instanceCount, knownInstances, instances, fills, raised, call, timing>>

\* A call record: `member` tells whether the instance was in knownInstances
\* when the call was made, `arg` is the number passed (0 when there is none).
Call(op, i, member, arg) == [op |-> op, inst |-> i, member |-> member, arg |-> arg]

\* The record of a fillAttribute call: the attribute name, the value passed
\* and the arguments the call invoked the value with, in order.
CallFill(op, i, member, name, value, args) ==
  [op |-> op, inst |-> i, member |-> member, arg |-> 0, name |-> name, value |-> value,
   args |-> args]

\* ------------------------------------------------------------ typed arrays
\* A relative index of the typed-array methods: negative counts from the end.
RelIdx(x, len) == IF x < 0 THEN Max(len + x, 0) ELSE Min(x, len)

\* TypedArray.prototype.subarray(begin, end): the window's offset and length.
SubOff(arr, b) == RelIdx(b, Len(arr))
SubLen(arr, b, e) == Max(RelIdx(e, Len(arr)) - RelIdx(b, Len(arr)), 0)

\* The elements a window shows.
Window(arr, off, len) == [k \in 1..len |-> arr[off + k]]

\* TypedArray.prototype.set(src, off) raises RangeError when src does not fit.
SetFits(arr, src, off) == Len(src) + off <= Len(arr)
SetAt(arr, src, off) ==
  [k \in 1..Len(arr) |-> IF k > off /\ k <= off + Len(src) THEN src[k - off] ELSE arr[k]]

\* TypedArray.prototype.fill(v, start)
FillFrom(arr, v, s) ==
  [k \in 1..Len(arr) |-> IF k > RelIdx(s, Len(arr)) THEN v ELSE arr[k]]

\* --------------------------------------------------------------- attributes
\* A THREE.BufferAttribute: its array, its itemSize, whether it was declared
\* as an InstancedBufferAttribute, and the flag set through needsUpdate.
\* `buf` is the identity of the array object: a view made of this array
\* aliases it for as long as the attribute is not replaced.
Attr(arr, size, inst, buf) ==
  [array |-> arr, itemSize |-> size, instanced |-> inst, needsUpdate |-> FALSE, buf |-> buf]

\* calculateAttributeSubarrays' test `attr.count >= maxParticles`, with
\* count = array.length / itemSize.
IsPerInstance(attr) == Len(attr.array) >= maxParticles * attr.itemSize

\* The names of a record of attributes, in Object.entries order.
RECURSIVE OrderedFrom(_, _)
OrderedFrom(names, k) ==
  IF k > Len(KeyOrder) THEN <<>>
  ELSE IF KeyOrder[k] \in names THEN <<KeyOrder[k]>> \o OrderedFrom(names, k + 1)
  ELSE OrderedFrom(names, k + 1)
Entries(f) == OrderedFrom(DOMAIN f, 1)

\* ---------------------------------------------------------------- instances
\* EmitterInstance.calculateAttributeSubarrays: the views and the recorded
\* indices of instance `inst` against the attributes `attrs` and the count.
CalcStart(inst, name, attr, count) ==
  IF name \in DOMAIN inst.attributeIndices
    THEN inst.attributeIndices[name]
    ELSE Max(0, count * attr.itemSize)

CalcEnd(inst, name, attr, count) ==
  Min(Len(attr.array), CalcStart(inst, name, attr, count) + inst.particleAmount * attr.itemSize)

ProxyView(inst, name, attr, count) ==
  [off |-> SubOff(attr.array, CalcStart(inst, name, attr, count)),
   len |-> SubLen(attr.array, CalcStart(inst, name, attr, count), CalcEnd(inst, name, attr, count)),
   proxy |-> TRUE, buf |-> attr.buf]

\* A whole-buffer view that stops one element short.
WholeViewShort(attr) ==
  [off |-> 0, len |-> Len(attr.array) - 1, proxy |-> FALSE, buf |-> attr.buf]

WholeView(attr) == [off |-> 0, len |-> Len(attr.array), proxy |-> FALSE, buf |-> attr.buf]

\* A recalculation that only renews the views the instance holds already
\* (a new instance gets them all).
calculateHeldSubarrays(inst, attrs, count) ==
  LET seen == IF DOMAIN inst.attributes = {} THEN DOMAIN attrs
              ELSE DOMAIN attrs \cap DOMAIN inst.attributes
      per == {n \in seen : IsPerInstance(attrs[n])}
      names == seen \cup DOMAIN inst.attributes
  IN [inst EXCEPT
        !.attributeIndices =
          [n \in per \cup DOMAIN inst.attributeIndices |->
             IF n \in per THEN CalcStart(inst, n, attrs[n], count)
             ELSE inst.attributeIndices[n]],
        !.attributes =
          [n \in names |->
             IF n \in per THEN ProxyView(inst, n, attrs[n], count)
             ELSE IF n \notin DOMAIN inst.attributes THEN WholeView(attrs[n])
             ELSE inst.attributes[n]]]

calculateAttributeSubarrays(inst, attrs, count) ==
  LET per == {n \in DOMAIN attrs : IsPerInstance(attrs[n])}
      names == DOMAIN attrs \cup DOMAIN inst.attributes
  IN [inst EXCEPT
        !.attributeIndices =
          [n \in per \cup DOMAIN inst.attributeIndices |->
             IF n \in per THEN CalcStart(inst, n, attrs[n], count)
             ELSE inst.attributeIndices[n]],
        !.attributes =
          [n \in names |->
             IF n \in per THEN ProxyView(inst, n, attrs[n], count)
             ELSE IF n \notin DOMAIN inst.attributes THEN WholeView(attrs[n])
             ELSE inst.attributes[n]]]

\* The instance object before its constructor computes anything.
NewInstance(p) ==
  [particleAmount |-> p, attributes |-> <<>>, attributeIndices |-> <<>>]

\* The length of the view instance `inst` holds of `name`: the subarray's
\* length, or the length of the array it was handed whole.
ViewLen(inst, name, attrs) == inst.attributes[name].len

\* The view is of an array that setAttributes has replaced since: it still
\* aliases the old array, which the Emitter no longer holds.
Detached(inst, name, attrs) ==
  name \notin DOMAIN attrs \/ inst.attributes[name].buf # attrs[name].buf

\* What instance `inst` reads through its view of `name`, a view of the
\* attribute's current array.
ReadView(inst, name, attrs) ==
  Window(attrs[name].array, inst.attributes[name].off, ViewLen(inst, name, attrs))

\* ----------------------------------------------------------------- Emitter
\* The count added without the clamp to maxParticles.
CountAddedUnclamped(count, inst) == count + inst.particleAmount

\* Emitter.instanceAdded: the new count.
CountAdded(count, inst) == Min(maxParticles, count + inst.particleAmount)

\* The count removed without the clamp to 0.
CountRemovedUnclamped(count, inst) == count - inst.particleAmount

\* Emitter.instanceRemoved: the new count.
CountRemoved(count, inst) == Max(0, count - inst.particleAmount)

\* Emitter.removeAndShiftAttributes, one attribute of the loop: the removed
\* range, whether array.set raises, and the attribute afterwards.
RemoveStart(inst, name) ==
  IF name \in DOMAIN inst.attributeIndices THEN inst.attributeIndices[name] ELSE 0

RemoveEnd(inst, name, attrs) == RemoveStart(inst, name) + ViewLen(inst, name, attrs)

ShiftSource(arr, end) == Window(arr, SubOff(arr, end), SubLen(arr, end, Len(arr)))

ShiftFits(inst, name, attrs) ==
  SetFits(attrs[name].array,
          ShiftSource(attrs[name].array, RemoveEnd(inst, name, attrs)),
          RemoveStart(inst, name))

\* A zero-fill that starts where the removed range started.
FillTailFromStart(start, end) == start

FillTailFrom(start, end) == start - end

RemoveAndShiftOne(inst, name, attrs) ==
  LET arr == attrs[name].array
      start == RemoveStart(inst, name)
      end == RemoveEnd(inst, name, attrs)
      shifted == SetAt(arr, ShiftSource(arr, end), start)
  IN [attrs EXCEPT ![name].array = FillFrom(shifted, 0, FillTailFrom(start, end)),
                   ![name].needsUpdate = TRUE]

\* The loop over Object.entries(instance.attributes); it stops at the first
\* RangeError, leaving the attributes handled so far compacted.
RECURSIVE RemoveLoop(_, _, _)
RemoveLoop(inst, names, acc) ==
  IF names = <<>> \/ acc.raised # "none" THEN acc
  ELSE LET name == Head(names) IN
    IF name \notin DOMAIN acc.attrs
      THEN RemoveLoop(inst, Tail(names), acc)
    ELSE IF ~ShiftFits(inst, name, acc.attrs)
      THEN [acc EXCEPT !.raised = "RangeError"]
    ELSE RemoveLoop(inst, Tail(names),
                    [acc EXCEPT !.attrs = RemoveAndShiftOne(inst, name, acc.attrs)])

removeAndShiftAttributes(inst, attrs) ==
  RemoveLoop(inst, Entries(inst.attributes), [attrs |-> attrs, raised |-> "none"])

\* --------------------------------------------------------------------- Init
\* new Emitter({maxParticles, attributes}): no instance, count 0.  The
\* arrays the caller hands over are fresh (all zero) or hold the caller's
\* data (here: element k holds k + 1, so that every element differs).
Constructed(auto) ==
  /\ \E data \in {Zeros, Iota} :
       attributes = [n \in AttrNames |->
          CASE n = "pos" -> Attr(data[maxParticles * 2], 2, TRUE, 1)
            [] n = "rnd" -> Attr(data[maxParticles], 1, TRUE, 2)
            [] n = "tex" -> Attr(data[SharedLen], 1, FALSE, 3)]
  /\ instanceCount = 0
  /\ knownInstances = {}
  /\ instances = <<>>
  /\ fills = 0
  /\ raised = "none"
  /\ call = Call("new Emitter", 0, FALSE, 0)
  /\ autoUpdate = auto
  /\ pending = IF auto THEN 1 ELSE 0
  /\ timestamp = 0
  /\ time = 0
  /\ now = 1
  /\ first = 0
  /\ fresh = auto
  /\ late = 0

\* The options leave autoUpdate out: `options.autoUpdate ?? true`.
Init == Constructed(TRUE)

\* The options may set autoUpdate.
InitTime == \E auto \in BOOLEAN : Constructed(auto)

Ids == 1..Len(instances)

\* ------------------------------------------------------------------ actions
\* A constructor that registers the instance before it computes the views.
RegisterThenCalculate(p) ==
  /\ Len(instances) < MaxInstances
  /\ LET inst == calculateAttributeSubarrays(NewInstance(p), attributes,
                                              CountAdded(instanceCount, NewInstance(p)))
     IN /\ instances' = Append(instances, inst)
        /\ knownInstances' = knownInstances \cup {Len(instances) + 1}
        /\ instanceCount' = CountAdded(instanceCount, inst)
  /\ raised' = "none"
  /\ call' = Call("register", Len(instances) + 1, FALSE, p)
  /\ UNCHANGED <<attributes, fills>>
  /\ UNCHANGED timing

\* new EmitterInstance(emitter, p): calculateAttributeSubarrays, then
\* added() -> emitter.instanceAdded(this).
Register(p) ==
  /\ Len(instances) < MaxInstances
  /\ LET inst == calculateAttributeSubarrays(NewInstance(p), attributes, instanceCount)
     IN /\ instances' = Append(instances, inst)
        /\ knownInstances' = knownInstances \cup {Len(instances) + 1}
        /\ instanceCount' = CountAdded(instanceCount, inst)
  /\ raised' = "none"
  /\ call' = Call("register", Len(instances) + 1, FALSE, p)
  /\ UNCHANGED <<attributes, fills>>
  /\ UNCHANGED timing

\* instanceAdded without the membership test: the instance counts again.
InstanceAddedAgain(i) ==
  /\ i \in Ids
  /\ knownInstances' = knownInstances \cup {i}
  /\ instanceCount' = CountAdded(instanceCount, instances[i])
  /\ raised' = "none"
  /\ call' = Call("instanceAdded", i, i \in knownInstances, 0)
  /\ UNCHANGED <<attributes, instances, fills>>
  /\ UNCHANGED timing

\* emitter.instanceAdded(instance) on an instance that exists already.
InstanceAdded(i) ==
  /\ i \in Ids
  /\ IF i \notin knownInstances
       THEN /\ knownInstances' = knownInstances \cup {i}
            /\ instanceCount' = CountAdded(instanceCount, instances[i])
       ELSE UNCHANGED <<knownInstances, instanceCount>>
  /\ raised' = "none"
  /\ call' = Call("instanceAdded", i, i \in knownInstances, 0)
  /\ UNCHANGED <<attributes, instances, fills>>
  /\ UNCHANGED timing

\* instanceRemoved without the membership test.
DisposeUnchecked(i) ==
  /\ i \in Ids \cup {0}
  /\ IF i \in Ids
       THEN LET r == removeAndShiftAttributes(instances[i], attributes)
            IN /\ instanceCount' = CountRemoved(instanceCount, instances[i])
               /\ attributes' = r.attrs
               /\ raised' = r.raised
               /\ knownInstances' =
                    IF r.raised = "none" THEN knownInstances \ {i} ELSE knownInstances
       ELSE /\ raised' = "none"
            /\ UNCHANGED <<instanceCount, attributes, knownInstances>>
  /\ call' = Call("dispose", i, i \in knownInstances, 0)
  /\ UNCHANGED <<instances, fills>>
  /\ UNCHANGED timing

\* instance.dispose() -> emitter.instanceRemoved(instance).  Identity 0 is an
\* EmitterInstance of some other Emitter, never a member of this one.
Dispose(i) ==
  /\ i \in Ids \cup {0}
  /\ IF i \in knownInstances
       THEN LET r == removeAndShiftAttributes(instances[i], attributes)
            IN /\ instanceCount' = CountRemoved(instanceCount, instances[i])
               /\ attributes' = r.attrs
               /\ raised' = r.raised
               /\ knownInstances' =
                    IF r.raised = "none" THEN knownInstances \ {i} ELSE knownInstances
       ELSE /\ raised' = "none"
            /\ UNCHANGED <<instanceCount, attributes, knownInstances>>
  /\ call' = Call("dispose", i, i \in knownInstances, 0)
  /\ UNCHANGED <<instances, fills>>
  /\ UNCHANGED timing

\* instance.calculateAttributeSubarrays(), called again by the caller.
Recalculate(i) ==
  /\ i \in Ids
  /\ instances' = [instances EXCEPT
                     ![i] = calculateAttributeSubarrays(instances[i], attributes, instanceCount)]
  /\ raised' = "none"
  /\ call' = Call("calculateAttributeSubarrays", i, i \in knownInstances, 0)
  /\ UNCHANGED <<attributes, instanceCount, knownInstances, fills>>
  /\ UNCHANGED timing

\* emitter.particleAmount = n
SetParticleAmount(n) ==
  /\ instanceCount' = n
  /\ raised' = "none"
  /\ call' = Call("particleAmount", 0, FALSE, n)
  /\ UNCHANGED <<attributes, knownInstances, instances, fills>>
  /\ UNCHANGED timing

\* The identity of an array object created after those the Emitter holds.
NewBuf(attrs) ==
  1 + (CHOOSE b \in {attrs[n].buf : n \in DOMAIN attrs} :
         \A n \in DOMAIN attrs : attrs[n].buf <= b)

\* The record of a setAttributes call: the name and the attribute passed.
CallDecl(name, attr) ==
  [op |-> "setAttributes", inst |-> 0, member |-> FALSE, arg |-> 0, name |-> name, value |-> attr]

\* A setAttributes that keeps the attribute a name already has.
SetAttributesKeepsExisting(name, attr) ==
  /\ attr.buf = NewBuf(attributes)
  /\ attr.buf <= Len(AttrOrder) + MaxDeclared
  /\ attributes' = [n \in DOMAIN attributes \cup {name} |->
                      IF n \in DOMAIN attributes THEN attributes[n] ELSE attr]
  /\ raised' = "none"
  /\ call' = CallDecl(name, attr)
  /\ UNCHANGED <<instanceCount, knownInstances, instances, fills>>
  /\ UNCHANGED timing

\* emitter.setAttributes({[name]: attr}), with a new attribute object:
\* geometry.setAttribute(name, attr) stores it under the name, in place of
\* the attribute the name had, if any.
SetAttributes(name, attr) ==
  /\ attr.buf = NewBuf(attributes)
  /\ attr.buf <= Len(AttrOrder) + MaxDeclared
  /\ attributes' = [n \in DOMAIN attributes \cup {name} |->
                      IF n = name THEN attr ELSE attributes[n]]
  /\ raised' = "none"
  /\ call' = CallDecl(name, attr)
  /\ UNCHANGED <<instanceCount, knownInstances, instances, fills>>
  /\ UNCHANGED timing

\* --------------------------------------------------------------- fill values
\* The value argument of fillAttribute: a number, an array of numbers, or a
\* function of the index.  The functions used are i -> 2 i and i -> [1, 2].
Scalar(x) == [kind |-> "scalar", v |-> <<x>>, g |-> "-"]
Vector(xs) == [kind |-> "vector", v |-> xs, g |-> "-"]
Fn(name) == [kind |-> "fn", v |-> <<>>, g |-> name]

GenIsArray(g) == g \in {"pair", "none"}
GenValue(g, i) == IF g = "pair" THEN <<1, 2>> ELSE IF g = "none" THEN <<>> ELSE <<2 * i>>

\* Number(x) as typed-array storage applies it to an element that is itself
\* an array: [] is 0, [x] is x, anything longer is NaN.
NaN == -1
ToNumber(xs) == IF Len(xs) = 0 THEN 0 ELSE IF Len(xs) = 1 THEN xs[1] ELSE NaN

\* A tiling that writes the first tile only.
TileLoopOnce(data, value, i) ==
  IF i >= Len(data) THEN [data |-> data, raised |-> "none", calls |-> 0, args |-> <<>>]
  ELSE IF ~SetFits(data, value, i)
    THEN [data |-> data, raised |-> "RangeError", calls |-> 1, args |-> <<>>]
  ELSE [data |-> SetAt(data, value, i), raised |-> "none", calls |-> 1, args |-> <<>>]

\* for (i = 0; i < data.length; i += value.length) data.set(value, i)
\* With a vector without elements `i += value.length` leaves i as it is:
\* the loop sets nothing at i forever and the call never returns, which
\* the outcome "diverges" records.
RECURSIVE TileLoop(_, _, _)
TileLoop(data, value, i) ==
  IF i >= Len(data) THEN [data |-> data, raised |-> "none", calls |-> 0, args |-> <<>>]
  ELSE IF Len(value) = 0
    THEN [data |-> data, raised |-> "diverges", calls |-> 1, args |-> <<>>]
  ELSE IF ~SetFits(data, value, i)
    THEN [data |-> data, raised |-> "RangeError", calls |-> 1, args |-> <<>>]
  ELSE LET r == TileLoop(SetAt(data, value, i), value, i + Len(value))
       IN [r EXCEPT !.calls = r.calls + 1]

\* A generator loop that passes the generator i + 1 instead of i.
RECURSIVE InstanceGenLoopFromOne(_, _, _)
InstanceGenLoopFromOne(data, g, i) ==
  IF i >= Len(data) THEN [data |-> data, raised |-> "none", calls |-> 0, args |-> <<>>]
  ELSE LET elem == IF GenIsArray(g) THEN ToNumber(GenValue(g, i + 1)) ELSE GenValue(g, i + 1)[1]
           r == InstanceGenLoopFromOne(SetAt(data, <<elem>>, i), g, i + 1)
       IN [r EXCEPT !.calls = r.calls + 1, !.args = <<i + 1>> \o r.args]

\* EmitterInstance.fillAttribute, function branch:
\* for (i = 0; i < data.length; i += 1) data.set([value(i)], i)
RECURSIVE InstanceGenLoop(_, _, _)
InstanceGenLoop(data, g, i) ==
  IF i >= Len(data) THEN [data |-> data, raised |-> "none", calls |-> 0, args |-> <<>>]
  ELSE LET elem == IF GenIsArray(g) THEN ToNumber(GenValue(g, i)) ELSE GenValue(g, i)[1]
           r == InstanceGenLoop(SetAt(data, <<elem>>, i), g, i + 1)
       IN [r EXCEPT !.calls = r.calls + 1, !.args = <<i>> \o r.args]

\* Emitter.fillAttribute, function branch: the while loop over destIndex.
RECURSIVE EmitterGenLoop(_, _, _, _)
EmitterGenLoop(data, g, sourceIndex, destIndex) ==
  IF destIndex >= Len(data) THEN [data |-> data, raised |-> "none", calls |-> 0, args |-> <<>>]
  ELSE LET arr == GenValue(g, sourceIndex) IN
    \* `destIndex += arr.length` with an empty result: the loop never ends
    \* (sourceIndex is the first of the arguments it goes through).
    IF Len(arr) = 0
      THEN [data |-> data, raised |-> "diverges", calls |-> 1, args |-> <<sourceIndex>>]
    ELSE IF ~SetFits(data, arr, destIndex)
      THEN [data |-> data, raised |-> "RangeError", calls |-> 1, args |-> <<sourceIndex>>]
      ELSE LET r == EmitterGenLoop(SetAt(data, arr, destIndex), g,
                                   sourceIndex + 1, destIndex + Len(arr))
           IN [r EXCEPT !.calls = r.calls + 1, !.args = <<sourceIndex>> \o r.args]

\* A fill that starts at the second element.
FillAllFromOne(data, x) ==
  [data |-> FillFrom(data, x, 1), raised |-> "none", calls |-> 1, args |-> <<>>]

\* data.fill(value)
FillAll(data, x) ==
  [data |-> FillFrom(data, x, 0), raised |-> "none", calls |-> 1, args |-> <<>>]

\* The three branches of EmitterInstance.fillAttribute on the view's
\* content: the content afterwards, the error raised, how many times a
\* mutating method of the view was looked up (the Proxy's get trap), and
\* the arguments the generator was invoked with.
InstanceFillData(data, value) ==
  CASE value.kind = "fn" -> InstanceGenLoop(data, value.g, 0)
    [] value.kind = "vector" -> TileLoop(data, value.v, 0)
    [] OTHER -> FillAll(data, value.v[1])

\* The three branches of Emitter.fillAttribute on the attribute's array.
EmitterFillData(data, value) ==
  CASE value.kind = "fn" -> EmitterGenLoop(data, value.g, 0, 0)
    [] value.kind = "vector" -> TileLoop(data, value.v, 0)
    [] OTHER -> FillAll(data, value.v[1])

\* A fill whose writes land at the start of the attribute's array instead
\* of the view's offset.
InstanceFillAtStart(inst, name, value, attrs) ==
  LET view == inst.attributes[name]
      r == InstanceFillData(ReadView(inst, name, attrs), value)
  IN [attrs |->
        [attrs EXCEPT
           ![name].array = SetAt(@, r.data, 0),
           ![name].needsUpdate = IF view.proxy /\ r.calls > 0 THEN TRUE ELSE @],
      raised |-> r.raised,
      args |-> r.args]

\* EmitterInstance.fillAttribute(attribute, value) for an instance that has
\* a view of `name`: the writes land in the attribute's array at the view's
\* offset; a Proxy view sets needsUpdate whenever set or fill is looked up.
InstanceFillAttribute(inst, name, value, attrs) ==
  LET view == inst.attributes[name]
      r == InstanceFillData(ReadView(inst, name, attrs), value)
  IN [attrs |->
        [attrs EXCEPT
           ![name].array = SetAt(@, r.data, view.off),
           ![name].needsUpdate = IF view.proxy /\ r.calls > 0 THEN TRUE ELSE @],
      raised |-> r.raised,
      args |-> r.args]

\* The same through a view of a replaced array: the writes land in the old
\* array, which is no longer the Emitter's; whether a write raises depends
\* on the view's length only, and a Proxy view still sets needsUpdate on
\* the attribute that has the name now.
DetachedFillAttribute(inst, name, value, attrs) ==
  LET view == inst.attributes[name]
      r == InstanceFillData(Zeros[view.len], value)
  IN [attrs |->
        IF name \in DOMAIN attrs /\ view.proxy /\ r.calls > 0
          THEN [attrs EXCEPT ![name].needsUpdate = TRUE]
          ELSE attrs,
      raised |-> r.raised,
      args |-> r.args]

\* Emitter.fillAttribute(attribute, value) for a declared attribute.
EmitterFillAttribute(name, value, attrs) ==
  LET r == EmitterFillData(attrs[name].array, value)
  IN [attrs |->
        [attrs EXCEPT
           ![name].array = r.data,
           ![name].needsUpdate = IF r.raised = "none" THEN TRUE ELSE @],
      raised |-> r.raised,
      args |-> r.args]

\* The values and names the callers pass.
FillValues ==
  {Scalar(1)} \cup {Vector(<<1, 2>>)} \cup {Fn("double"), Fn("pair")}
FillNames == AttrNames \cup {"unknown"}

\* The same and the values without elements.
TermValues == FillValues \cup {Vector(<<>>), Fn("none")}

\* instance.fillAttribute(name, value)
InstanceFill(i, name, value) ==
  /\ i \in Ids
  /\ fills < MaxFills
  /\ fills' = fills + 1
  /\ IF name \in DOMAIN instances[i].attributes
       THEN LET r == IF Detached(instances[i], name, attributes)
                       THEN DetachedFillAttribute(instances[i], name, value, attributes)
                       ELSE InstanceFillAttribute(instances[i], name, value, attributes)
            IN /\ attributes' = r.attrs /\ raised' = r.raised
               /\ call' = CallFill("instance.fillAttribute", i, i \in knownInstances,
                                   name, value, r.args)
       ELSE /\ raised' = "none" /\ UNCHANGED attributes
            /\ call' = CallFill("instance.fillAttribute", i, i \in knownInstances,
                                name, value, <<>>)
  /\ UNCHANGED <<instanceCount, knownInstances, instances>>
  /\ UNCHANGED timing

\* A fillAttribute that marks every attribute for upload when the name is
\* not one of the Emitter's.
EmitterFillMarksAll(name, value) ==
  /\ fills < MaxFills
  /\ fills' = fills + 1
  /\ IF name \in DOMAIN attributes
       THEN LET r == EmitterFillAttribute(name, value, attributes)
            IN /\ attributes' = r.attrs /\ raised' = r.raised
               /\ call' = CallFill("emitter.fillAttribute", 0, FALSE, name, value, r.args)
       ELSE /\ raised' = "none"
            /\ attributes' = [n \in DOMAIN attributes |-> [attributes[n] EXCEPT !.needsUpdate = TRUE]]
            /\ call' = CallFill("emitter.fillAttribute", 0, FALSE, name, value, <<>>)
  /\ UNCHANGED <<instanceCount, knownInstances, instances>>
  /\ UNCHANGED timing

\* emitter.fillAttribute(name, value)
EmitterFill(name, value) ==
  /\ fills < MaxFills
  /\ fills' = fills + 1
  /\ IF name \in DOMAIN attributes
       THEN LET r == EmitterFillAttribute(name, value, attributes)
            IN /\ attributes' = r.attrs /\ raised' = r.raised
               /\ call' = CallFill("emitter.fillAttribute", 0, FALSE, name, value, r.args)
       ELSE /\ raised' = "none" /\ UNCHANGED attributes
            /\ call' = CallFill("emitter.fillAttribute", 0, FALSE, name, value, <<>>)
  /\ UNCHANGED <<instanceCount, knownInstances, instances>>
  /\ UNCHANGED timing

\* ------------------------------------------------------------------- time
\* The record of a setAutoUpdate or update call: `mode` is autoUpdate when
\* the call was made, `arg` is 1 for true.
CallMode(op, b, mode) ==
  [op |-> op, inst |-> 0, member |-> FALSE, arg |-> IF b THEN 1 ELSE 0, mode |-> mode]

\* An increment that takes the time since 0 when there is no timestamp.
ElapsedSinceZero(ts, t) == t - ts

\* this.timestamp && (now - this.timestamp) / 1000 || 0, in thousandths
Elapsed(ts, t) == IF ts # 0 /\ t - ts # 0 THEN t - ts ELSE 0

\* A setAutoUpdate that requests a frame whatever its argument.
SetAutoUpdateAlways(b) ==
  /\ pending < MaxPending
  /\ autoUpdate' = b
  /\ pending' = pending + 1
  /\ fresh' = IF b THEN (fresh \/ ~autoUpdate) ELSE FALSE
  /\ late' = IF b \/ autoUpdate THEN 0 ELSE late
  /\ raised' = "none"
  /\ call' = CallMode("setAutoUpdate", b, autoUpdate)
  /\ UNCHANGED <<timestamp, time, now, first>>
  /\ UNCHANGED <<attributes, instanceCount, knownInstances, instances, fills>>

\* emitter.setAutoUpdate(b)
SetAutoUpdate(b) ==
  /\ b => pending < MaxPending
  /\ autoUpdate' = b
  /\ pending' = IF b THEN pending + 1 ELSE pending
  /\ fresh' = IF b THEN (fresh \/ ~autoUpdate) ELSE FALSE
  /\ late' = IF b \/ autoUpdate THEN 0 ELSE late
  /\ raised' = "none"
  /\ call' = CallMode("setAutoUpdate", b, autoUpdate)
  /\ UNCHANGED <<timestamp, time, now, first>>
  /\ UNCHANGED <<attributes, instanceCount, knownInstances, instances, fills>>

\* An update() that also takes the attributes' dirty flags back.
AccumulateClearsFlags ==
  /\ time' = time + Elapsed(timestamp, now)
  /\ timestamp' = now
  /\ first' = IF first = 0 THEN now ELSE first
  /\ fresh' = FALSE
  /\ raised' = "none"
  /\ attributes' = [n \in DOMAIN attributes |-> [attributes[n] EXCEPT !.needsUpdate = FALSE]]
  /\ UNCHANGED <<autoUpdate, now>>
  /\ UNCHANGED <<instanceCount, knownInstances, instances, fills>>

\* The first three statements of update(): the uniform and the timestamp.
Accumulate ==
  /\ time' = time + Elapsed(timestamp, now)
  /\ timestamp' = now
  /\ first' = IF first = 0 THEN now ELSE first
  /\ fresh' = FALSE
  /\ raised' = "none"
  /\ UNCHANGED <<autoUpdate, now>>
  /\ UNCHANGED <<attributes, instanceCount, knownInstances, instances, fills>>

\* An update() that touches the uniform and the timestamp only while
\* autoUpdate is set.
UpdateInAutoOnly ==
  /\ autoUpdate => pending < MaxPending
  /\ IF autoUpdate THEN Accumulate
     ELSE /\ raised' = "none"
          /\ UNCHANGED <<time, timestamp, first, fresh, autoUpdate, now>>
          /\ UNCHANGED <<attributes, instanceCount, knownInstances, instances, fills>>
  /\ pending' = IF autoUpdate THEN pending + 1 ELSE pending
  /\ late' = late
  /\ call' = CallMode("update", FALSE, autoUpdate)

\* emitter.update() called by the application
Update ==
  /\ autoUpdate => pending < MaxPending
  /\ Accumulate
  /\ pending' = IF autoUpdate THEN pending + 1 ELSE pending
  /\ late' = late
  /\ call' = CallMode("update", FALSE, autoUpdate)

\* A callback that never queues its successor.
TickNeverRequeues ==
  /\ pending > 0
  /\ Accumulate
  /\ pending' = pending - 1
  /\ late' = IF ~autoUpdate /\ Elapsed(timestamp, now) > 0 THEN late + 1 ELSE late
  /\ call' = CallMode("tick", FALSE, autoUpdate)

\* A callback that queues its successor whatever autoUpdate is.
TickAlwaysRequeues ==
  /\ pending > 0
  /\ Accumulate
  /\ pending' = pending
  /\ late' = IF ~autoUpdate /\ Elapsed(timestamp, now) > 0 THEN late + 1 ELSE late
  /\ call' = CallMode("tick", FALSE, autoUpdate)

\* The host runs one queued callback: update() called by the frame scheduler.
Tick ==
  /\ pending > 0
  /\ Accumulate
  /\ pending' = IF autoUpdate THEN pending ELSE pending - 1
  /\ late' = IF ~autoUpdate /\ Elapsed(timestamp, now) > 0 THEN late + 1 ELSE late
  /\ call' = CallMode("tick", FALSE, autoUpdate)

\* Time passes: Date.now() returns more than before.
ClockAdvance ==
  /\ now < MaxClock
  /\ now' = now + 1
  /\ call' = Call("clock", 0, FALSE, 0)
  /\ UNCHANGED <<autoUpdate, timestamp, time, pending, first, fresh, late, raised>>
  /\ UNCHANGED <<attributes, instanceCount, knownInstances, instances, fills>>

Amounts == 1..maxParticles
Counts == 0..(maxParticles + 1)

\* The attributes setAttributes is called with: a name the Emitter has or
\* a new one, and a new InstancedBufferAttribute or BufferAttribute of
\* itemSize 1 with maxParticles items or fewer, holding the caller's data.
DeclNames == {"tex", "vel"}
DeclAttrs ==
  {Attr(Iota[len], 1, inst, buf) :
     len \in {SharedLen, maxParticles}, inst \in BOOLEAN,
     buf \in (Len(AttrOrder) + 1)..(Len(AttrOrder) + MaxDeclared)}

\* The calls of the allocator: instances are registered and unregistered.
NextAlloc ==
  \/ \E p \in Amounts : Register(p)
  \/ \E i \in Ids : InstanceAdded(i)
  \/ \E i \in Ids \cup {0} : Dispose(i)
  \/ \E i \in Ids : Recalculate(i)

\* The allocator's calls and the particleAmount setter.
NextCount ==
  \/ NextAlloc
  \/ \E n \in Counts : SetParticleAmount(n)

\* The allocator's calls, the setter and the fills.
Next ==
  \/ NextCount
  \/ \E i \in Ids, name \in FillNames, value \in FillValues : InstanceFill(i, name, value)
  \/ \E name \in FillNames, value \in FillValues : EmitterFill(name, value)

\* Instances are created and attributes are filled, through the Emitter
\* and through the instances; no instance is disposed.
NextFill ==
  \/ \E p \in Amounts : Register(p)
  \/ \E i \in Ids, name \in FillNames, value \in FillValues : InstanceFill(i, name, value)
  \/ \E name \in FillNames, value \in FillValues : EmitterFill(name, value)

\* The same with every value; nothing follows a call that never returns.
NextTerm ==
  /\ raised # "diverges"
  /\ \/ \E p \in Amounts : Register(p)
     \/ \E i \in Ids, name \in FillNames, value \in TermValues : InstanceFill(i, name, value)
     \/ \E name \in FillNames, value \in TermValues : EmitterFill(name, value)

\* Instances come and go, recompute their views, and attributes are
\* declared while they exist.
NextDecl ==
  \/ \E p \in Amounts : Register(p)
  \/ \E i \in Ids \cup {0} : Dispose(i)
  \/ \E i \in Ids : Recalculate(i)
  \/ \E name \in DeclNames, attr \in DeclAttrs : SetAttributes(name, attr)

\* Instances are created and recompute their views while attributes are
\* declared; no instance is disposed.
NextViews ==
  \/ \E p \in Amounts : Register(p)
  \/ \E i \in Ids : Recalculate(i)
  \/ \E name \in DeclNames, attr \in DeclAttrs : SetAttributes(name, attr)

\* Instances are created and recompute their views while a new attribute
\* is declared, and fill it.
NextLate ==
  \/ \E p \in Amounts : Register(p)
  \/ \E i \in Ids : Recalculate(i)
  \/ \E attr \in DeclAttrs : SetAttributes("vel", attr)
  \/ \E i \in Ids : InstanceFill(i, "vel", Scalar(0))

\* The calls about time, the frame scheduler and the clock.
NextTime ==
  \/ \E b \in BOOLEAN : SetAutoUpdate(b)
  \/ Update
  \/ Tick
  \/ ClockAdvance

SpecTime == InitTime /\ [][NextTime]_vars

\* Callbacks run while instances of one particle are registered, filled
\* and disposed.
NextFrame ==
  \/ Register(1)
  \/ \E i \in Ids : Dispose(i)
  \/ \E i \in Ids : InstanceFill(i, "pos", Scalar(1))
  \/ EmitterFill("rnd", Fn("double"))
  \/ Tick
  \/ ClockAdvance

SpecFrame == Init /\ [][NextFrame]_vars

\* The host's frame scheduler runs every callback it was handed.
SpecTimeFair == InitTime /\ [][NextTime]_vars /\ WF_vars(Tick)

SpecAlloc == Init /\ [][NextAlloc]_vars
SpecLate == Init /\ [][NextLate]_vars
SpecDecl == Init /\ [][NextDecl]_vars
SpecViews == Init /\ [][NextViews]_vars
SpecFill == Init /\ [][NextFill]_vars
SpecTerm == Init /\ [][NextTerm]_vars
SpecCount == Init /\ [][NextCount]_vars
Spec == Init /\ [][Next]_vars

\* ------------------------------------------------------------------- claims
\* The range an instance has on record for a per-instance attribute:
\* [attributeIndices[name], attributeIndices[name] + view length).
PerAttrs(i) == DOMAIN instances[i].attributeIndices
RecStart(i, n) == instances[i].attributeIndices[n]
RecLen(i, n) == instances[i].attributes[n].len
RecEnd(i, n) == RecStart(i, n) + RecLen(i, n)

RECURSIVE SumLen(_, _)
SumLen(S, n) ==
  IF S = {} THEN 0
  ELSE LET j == CHOOSE x \in S : TRUE
       IN (IF n \in PerAttrs(j) THEN RecLen(j, n) ELSE 0) + SumLen(S \ {j}, n)

RECURSIVE SumAmount(_)
SumAmount(S) ==
  IF S = {} THEN 0
  ELSE LET j == CHOOSE x \in S : TRUE
       IN instances[j].particleAmount + SumAmount(S \ {j})

\* The step is a dispose() of a member that returned normally; call'.inst
\* is the instance unregistered.
Unregistered == call'.op = "dispose" /\ call'.member /\ raised' = "none"

\* The surviving instances' ranges are laid out from offset 0 in
\* registration order, each starting where the one before it ends.
Layout ==
  \A i \in knownInstances : \A n \in PerAttrs(i) :
    RecStart(i, n) = SumLen({j \in knownInstances : j < i}, n)

\* C1: after any unregister, the recorded ranges of the surviving instances
\* are contiguous in every per-instance attribute, start at offset 0 and
\* follow the registration order, with no gap and no overlap.
C1_LayoutAfterUnregister == [][Unregistered => Layout']_vars

\* C2: in every state reached by register and unregister calls, the active
\* item count is min(maxParticles, sum of particleAmount over knownInstances).
C2_CountIsClampedSum ==
  instanceCount = Min(maxParticles, SumAmount(knownInstances))

\* C3: when an instance is unregistered, the recorded offset of every
\* remaining instance laid out after it decreases by the removed range's
\* length, in every per-instance attribute.
C3_OffsetsShiftLeft ==
  [][Unregistered =>
       \A j \in knownInstances' : \A n \in PerAttrs(j) \cap PerAttrs(call'.inst) :
         (j > call'.inst /\ RecStart(j, n) >= RecEnd(call'.inst, n)) =>
           instances'[j].attributeIndices[n] = RecStart(j, n) - RecLen(call'.inst, n)]_vars

\* C4: after an earlier instance is unregistered and a surviving later
\* instance recomputes its views, the later instance reads through its
\* views exactly the values it read before the unregistration.
C4_DataPreserved ==
  [][Unregistered =>
       \A j \in knownInstances' : \A n \in PerAttrs(j) :
         j > call'.inst =>
           ReadView(calculateAttributeSubarrays(instances'[j], attributes', instanceCount'),
                    n, attributes')
             = ReadView(instances[j], n, attributes)]_vars

\* C5: on an Emitter with no instance, registering an instance and
\* unregistering it at once brings the count back to 0 and every buffer,
\* per-instance and shared, back to its content before the registration.
C5_RoundTrip ==
  [][/\ (call'.op = "register" /\ knownInstances = {}) =>
          \A n \in DOMAIN attributes : attributes'[n].array = attributes[n].array
     /\ (/\ call.op = "register" /\ knownInstances = {call.inst}
         /\ call'.op = "dispose" /\ call'.inst = call.inst) =>
          /\ raised' = "none"
          /\ knownInstances' = {}
          /\ instanceCount' = 0
          /\ \A n \in DOMAIN attributes : attributes'[n].array = attributes[n].array]_vars

\* C6: a per-instance view ends at min(buffer length, offset + particleAmount
\* * itemSize), truncated rather than refused, and in every reachable state
\* 0 <= offset <= offset + view length <= buffer length.
C6_ViewWithinBuffer ==
  \A i \in Ids : \A n \in PerAttrs(i) :
    /\ RecEnd(i, n) = Min(Len(attributes[n].array),
                          RecStart(i, n) + instances[i].particleAmount * attributes[n].itemSize)
    /\ 0 <= RecStart(i, n)
    /\ RecStart(i, n) <= RecEnd(i, n)
    /\ RecEnd(i, n) <= Len(attributes[n].array)

\* C7: instanceAdded called again with an instance that is already in
\* knownInstances changes neither knownInstances nor the active item count.
C7_AddIsIdempotent ==
  [][(call'.op = "instanceAdded" /\ call'.member) =>
       (knownInstances' = knownInstances /\ instanceCount' = instanceCount)]_vars

\* An already registered instance with particles was added again while the
\* count had room to grow.
C7_Witness ==
  /\ call.op = "instanceAdded" /\ call.member
  /\ instances[call.inst].particleAmount > 0
  /\ instanceCount < maxParticles

\* C8: unregistering an instance that is not a member (a second dispose, or
\* an instance of another Emitter) changes nothing: not the count, not
\* knownInstances, no buffer's contents and no needsUpdate flag.
C8_DisposeOfNonMember ==
  [][(call'.op = "dispose" /\ ~call'.member) =>
       (/\ raised' = "none"
        /\ UNCHANGED <<instanceCount, knownInstances, attributes, instances>>)]_vars

\* An instance was disposed a second time while another instance was still
\* registered and a buffer held data.
C8_Witness ==
  /\ call.op = "dispose" /\ ~call.member /\ call.inst \in Ids
  /\ knownInstances # {} /\ instanceCount > 0
  /\ \E n \in DOMAIN attributes : \E k \in 1..Len(attributes[n].array) :
       attributes[n].array[k] # 0

\* C9: a registration that exceeds the capacity is not refused: the instance
\* is created and joins knownInstances with the particleAmount it asked for,
\* and the active item count stops at maxParticles.
C9_OverCapacityRegistration ==
  [][(call'.op = "register" /\ instanceCount + call'.arg > maxParticles) =>
       (/\ raised' = "none"
        /\ Len(instances') = Len(instances) + 1
        /\ call'.inst = Len(instances')
        /\ knownInstances' = knownInstances \cup {call'.inst}
        /\ instances'[call'.inst].particleAmount = call'.arg
        /\ instanceCount' = maxParticles)]_vars

\* The registered instances ask for more particles than maxParticles.
C9_Witness ==
  /\ call.op = "register" /\ call.inst \in knownInstances
  /\ SumAmount(knownInstances) > maxParticles
  /\ instances[call.inst].particleAmount = call.arg
  /\ instanceCount = maxParticles

\* The attributes an instance holds as a whole buffer (count < maxParticles).
SharedAttrs(i) ==
  {n \in DOMAIN instances[i].attributes \cap DOMAIN attributes : ~IsPerInstance(attributes[n])}

FillCalled == call'.op \in {"instance.fillAttribute", "emitter.fillAttribute"}

\* The call's first test: the Emitter has the attribute (`attribute in
\* geometry.attributes`), or the instance has a view of it.
HasTarget ==
  IF call'.op = "emitter.fillAttribute"
    THEN call'.name \in DOMAIN attributes
    ELSE call'.name \in DOMAIN instances[call'.inst].attributes

\* The call's `data`: the attribute's whole array for the Emitter, the
\* instance's view for an instance; read before and after the call.
TargetOf(attrs) ==
  IF call'.op = "emitter.fillAttribute"
    THEN attrs[call'.name].array
    ELSE ReadView(instances[call'.inst], call'.name, attrs)
TargetBefore == TargetOf(attributes)
TargetAfter == TargetOf(attributes')

\* The same in the state the call leaves, for the call just made.
LastTarget ==
  IF call.op = "emitter.fillAttribute"
    THEN attributes[call.name].array
    ELSE ReadView(instances[call.inst], call.name, attributes)
LastFillHit ==
  /\ call.op \in {"instance.fillAttribute", "emitter.fillAttribute"}
  /\ IF call.op = "emitter.fillAttribute"
       THEN call.name \in DOMAIN attributes
       ELSE call.name \in DOMAIN instances[call.inst].attributes

\* C12: fillAttribute with a scalar v on a target of length L (the whole
\* buffer for the Emitter, the view for an instance) returns normally and
\* leaves the target holding L copies of v.
C12_ScalarFill ==
  [][(FillCalled /\ HasTarget /\ call'.value.kind = "scalar") =>
       (/\ raised' = "none"
        /\ Len(TargetAfter) = Len(TargetBefore)
        /\ \A k \in 1..Len(TargetAfter) : TargetAfter[k] = call'.value.v[1])]_vars

\* An instance filled its view of two or more elements with a scalar while
\* the buffer holds a different value outside the view.
C12_Witness ==
  /\ LastFillHit /\ call.op = "instance.fillAttribute" /\ call.value.kind = "scalar"
  /\ Len(LastTarget) >= 2
  /\ \A k \in 1..Len(LastTarget) : LastTarget[k] = call.value.v[1]
  /\ \E k \in 1..Len(attributes[call.name].array) :
       attributes[call.name].array[k] # call.value.v[1]

\* C13: fillAttribute with a vector of length k on a target whose length L
\* is a multiple of k tiles the vector: target[i] = vector[i mod k] for
\* every 0 <= i < L.
C13_VectorTiles ==
  [][(/\ FillCalled /\ HasTarget /\ call'.value.kind = "vector"
      /\ Len(TargetBefore) % Len(call'.value.v) = 0) =>
       (/\ raised' = "none"
        /\ Len(TargetAfter) = Len(TargetBefore)
        /\ \A i \in 0..(Len(TargetAfter) - 1) :
             TargetAfter[i + 1] = call'.value.v[(i % Len(call'.value.v)) + 1])]_vars

\* A vector was tiled at least twice over its target.
C13_Witness ==
  /\ LastFillHit /\ call.value.kind = "vector" /\ raised = "none"
  /\ Len(LastTarget) >= 2 * Len(call.value.v)
  /\ Len(LastTarget) % Len(call.value.v) = 0
  /\ LastTarget[Len(call.value.v) + 1] = call.value.v[1]

\* C14: fillAttribute with a scalar-returning generator g on a target of L
\* scalar items (itemSize 1) leaves target[i] = g(i) for every 0 <= i < L.
C14_GeneratorFill ==
  [][(/\ FillCalled /\ HasTarget /\ call'.value.kind = "fn"
      /\ call'.value.g = "double"
      /\ call'.name \in DOMAIN attributes /\ attributes[call'.name].itemSize = 1) =>
       (/\ raised' = "none"
        /\ Len(TargetAfter) = Len(TargetBefore)
        /\ \A i \in 0..(Len(TargetAfter) - 1) : TargetAfter[i + 1] = 2 * i)]_vars

\* An instance filled a view of two or more scalar items with i -> 2 i.
C14_Witness ==
  /\ LastFillHit /\ call.op = "instance.fillAttribute"
  /\ call.value.kind = "fn" /\ call.value.g = "double"
  /\ attributes[call.name].itemSize = 1
  /\ Len(LastTarget) >= 2
  /\ LastTarget[2] = 2

\* The width of the value's tiles: the vector's length, or the length of
\* the vector the generator returns.
TileOf(value) == IF value.kind = "vector" THEN value.v ELSE GenValue(value.g, 0)

\* C15: fillAttribute with a vector, or a vector-returning generator, whose
\* length k does not divide the target length L returns without an error:
\* the full tiles are written, the last tile partially, and nothing is
\* written outside the target.
C15_PartialTileNoError ==
  [][(/\ FillCalled /\ HasTarget
      /\ (call'.value.kind = "vector" \/ (call'.value.kind = "fn" /\ GenIsArray(call'.value.g)))
      /\ Len(TargetBefore) % Len(TileOf(call'.value)) # 0) =>
       (/\ raised' = "none"
        /\ \A i \in 0..(Len(TargetAfter) - 1) :
             TargetAfter[i + 1] = TileOf(call'.value)[(i % Len(TileOf(call'.value))) + 1]
        /\ \A n \in DOMAIN attributes :
             Len(attributes'[n].array) = Len(attributes[n].array))]_vars

\* C16: after any fillAttribute call that writes to a buffer, through the
\* Emitter or an instance, on a per-instance or a shared attribute, the
\* attribute's needsUpdate flag is set.
C16_FillMarksDirty ==
  [][(/\ FillCalled /\ HasTarget /\ call'.name \in DOMAIN attributes
      /\ Len(TargetBefore) > 0 /\ raised' = "none") =>
       attributes'[call'.name].needsUpdate]_vars

\* C17: fillAttribute with a name the target does not have (not among the
\* Emitter's attributes, not among the instance's views) is a silent no-op:
\* no error, no buffer content changes, no needsUpdate flag is set.
C17_UnknownNameIsNoOp ==
  [][(FillCalled /\ ~HasTarget) =>
       (/\ raised' = "none"
        /\ UNCHANGED <<attributes, instanceCount, knownInstances, instances>>)]_vars

\* The Emitter was asked to fill a name it does not have while an instance
\* is registered and a buffer holds data.
C17_Witness ==
  /\ call.op = "emitter.fillAttribute" /\ call.name \notin DOMAIN attributes
  /\ knownInstances # {}
  /\ \E n \in DOMAIN attributes : \E k \in 1..Len(attributes[n].array) :
       attributes[n].array[k] # 0

\* C18: EmitterInstance.fillAttribute is Emitter.fillAttribute restricted to
\* the instance's portion: for every value, the view holds afterwards what
\* Emitter.fillAttribute leaves in a buffer that is exactly that range, and
\* both raise or both return.
C18_InstanceFillIsEmitterFill ==
  [][(call'.op = "instance.fillAttribute" /\ HasTarget) =>
       (/\ TargetAfter = EmitterFillData(TargetBefore, call'.value).data
        /\ raised' = EmitterFillData(TargetBefore, call'.value).raised)]_vars

\* C19: the particleAmount setter clamps the stored value to
\* [0, maxParticles], so after any sequence of set, register and unregister
\* the count the renderer reads is within [0, maxParticles].
C19_SetterClamps ==
  /\ (call.op = "particleAmount" => instanceCount = Max(0, Min(maxParticles, call.arg)))
  /\ 0 <= instanceCount /\ instanceCount <= maxParticles

\* ----------------------------------------------------- declaration claims
\* C11: whether an attribute is shared or per-instance follows from its
\* declared kind: a new instance is handed every BufferAttribute as the
\* whole buffer and every InstancedBufferAttribute as a subarray of its
\* own, whatever the attribute's count and maxParticles.
C11_KindDecidesSharing ==
  [][call'.op = "register" =>
       \A n \in DOMAIN attributes' :
         /\ n \in DOMAIN instances'[call'.inst].attributes
         /\ IF attributes'[n].instanced
              THEN instances'[call'.inst].attributes[n].proxy
              ELSE instances'[call'.inst].attributes[n] = WholeView(attributes'[n])]_vars

\* The step is a setAttributes call with a name the Emitter already has.
Redeclared == call'.op = "setAttributes" /\ call'.name \in DOMAIN attributes

\* C20 as stated: setAttributes with a name that already exists fails with
\* DuplicateAttribute and leaves the existing attribute, its buffer and all
\* instance views untouched.
C20_DuplicateAttributeFails ==
  [][Redeclared =>
       (/\ raised' = "DuplicateAttribute"
        /\ attributes' = attributes
        /\ instances' = instances)]_vars

\* C20 as amended: setAttributes with a name that already exists returns
\* normally and stores the attribute passed under that name, in place of
\* the existing one; the other attributes, the count, knownInstances and
\* the instances' views and recorded offsets are untouched: the views are
\* not recomputed and still alias the buffer they were made of (for the new
\* attribute object passed here, not the buffer the name has now).
C20_RedeclareReplaces ==
  [][Redeclared =>
       (/\ raised' = "none"
        /\ DOMAIN attributes' = DOMAIN attributes
        /\ attributes'[call'.name] = call'.value
        /\ attributes'[call'.name].buf # attributes[call'.name].buf
        /\ \A n \in DOMAIN attributes \ {call'.name} : attributes'[n] = attributes[n]
        /\ UNCHANGED <<instanceCount, knownInstances, instances>>
        /\ \A i \in Ids : call'.name \in DOMAIN instances[i].attributes =>
             Detached(instances'[i], call'.name, attributes'))]_vars

\* An attribute was replaced by one of another length while a registered
\* instance holds a view of the buffer it had.
C20_Witness ==
  /\ call.op = "setAttributes" /\ raised = "none"
  /\ attributes[call.name] = call.value
  /\ \E i \in knownInstances :
       /\ call.name \in DOMAIN instances[i].attributes
       /\ Detached(instances[i], call.name, attributes)
       /\ instances[i].attributes[call.name].len # Len(attributes[call.name].array)

\* ------------------------------------------------------- compaction claims
\* C25: unregistering an instance whose recorded range [start, end) in a
\* per-instance attribute it has a view for is not empty leaves buffer[i]
\* unchanged for i < start, sets buffer[i] to the old buffer[i + (end -
\* start)] for start <= i < length - (end - start), and sets the last
\* (end - start) components to zero.
C25_CompactionShiftsAndZeroFills ==
  [][Unregistered =>
       \A n \in PerAttrs(call'.inst) :
         RecLen(call'.inst, n) > 0 =>
           /\ Len(attributes'[n].array) = Len(attributes[n].array)
           /\ \A i \in 0..(Len(attributes[n].array) - 1) :
                attributes'[n].array[i + 1] =
                  IF i < RecStart(call'.inst, n)
                    THEN attributes[n].array[i + 1]
                  ELSE IF i < Len(attributes[n].array) - RecLen(call'.inst, n)
                    THEN attributes[n].array[i + RecLen(call'.inst, n) + 1]
                  ELSE 0]_vars

\* An instance with a non-empty range that ends before the buffer does was
\* unregistered, and the data behind it moved to the range's start.
C25_Witness ==
  /\ call.op = "dispose" /\ call.member /\ raised = "none"
  /\ \E n \in PerAttrs(call.inst) :
       /\ RecLen(call.inst, n) > 0
       /\ RecEnd(call.inst, n) < Len(attributes[n].array)
       /\ attributes[n].array[RecStart(call.inst, n) + 1] # 0
       /\ attributes[n].array[Len(attributes[n].array)] = 0

\* C27: a newly registered instance's offset in every per-instance
\* attribute is (the active item count right before the registration) *
\* itemSize: the views are computed before the count is increased.
C27_NewInstanceStartsAtCount ==
  [][call'.op = "register" =>
       /\ DOMAIN instances'[call'.inst].attributeIndices =
            {n \in DOMAIN attributes : IsPerInstance(attributes[n])}
       /\ \A n \in DOMAIN instances'[call'.inst].attributeIndices :
            /\ instances'[call'.inst].attributeIndices[n] = instanceCount * attributes[n].itemSize
            /\ instances'[call'.inst].attributes[n].off =
                 Min(Len(attributes[n].array), instanceCount * attributes[n].itemSize)]_vars

\* An instance was registered behind another one that is still registered.
C27_Witness ==
  /\ call.op = "register" /\ call.inst \in knownInstances
  /\ \E j \in knownInstances : j < call.inst
  /\ \E n \in PerAttrs(call.inst) : RecStart(call.inst, n) > 0 /\ RecLen(call.inst, n) > 0

\* C28: registering a new instance sets the active item count to
\* min(maxParticles, previous count + particleAmount); unregistering a
\* member sets it to max(0, previous count - particleAmount); both with the
\* instance's full requested particleAmount.
C28_CountUpdates ==
  [][/\ call'.op = "register" =>
          /\ instances'[call'.inst].particleAmount = call'.arg
          /\ instanceCount' = Min(maxParticles, instanceCount + call'.arg)
     /\ (call'.op = "dispose" /\ call'.member) =>
          instanceCount' = Max(0, instanceCount - instances[call'.inst].particleAmount)]_vars

\* The last member was unregistered after the instances had asked for more
\* than maxParticles: the count is 0, where the requested amounts would
\* have taken it below.
C28_Witness ==
  /\ call.op = "dispose" /\ call.member /\ raised = "none"
  /\ knownInstances = {} /\ instanceCount = 0
  /\ SumAmount(Ids) > maxParticles

\* ------------------------------------------------- late declaration claims
\* The step is a setAttributes call with a name the Emitter does not have.
DeclaredNew == call'.op = "setAttributes" /\ call'.name \notin DOMAIN attributes

\* C21: declaring an attribute after instances exist succeeds; an instance
\* that existed before has no view of the new attribute, so that its
\* fillAttribute on that name is a no-op, until it calls
\* calculateAttributeSubarrays, after which it has the view.
C21_LateAttributeNeedsRecalculation ==
  [][/\ DeclaredNew =>
          /\ raised' = "none"
          /\ call'.name \in DOMAIN attributes' /\ attributes'[call'.name] = call'.value
          /\ \A i \in Ids : call'.name \notin DOMAIN instances'[i].attributes
     /\ \A i \in Ids : \A n \in DOMAIN attributes \ DOMAIN instances[i].attributes :
          (n \in DOMAIN instances'[i].attributes)
            <=> (call'.op = "calculateAttributeSubarrays" /\ call'.inst = i)
     /\ (/\ call'.op = "instance.fillAttribute"
         /\ call'.name \in DOMAIN attributes \ DOMAIN instances[call'.inst].attributes) =>
          (raised' = "none" /\ attributes' = attributes /\ instances' = instances)]_vars

\* An instance made before the attribute was declared has recomputed its
\* views and holds a view of it; a later instance, also made before the
\* declaration, still holds none.
C21_Witness ==
  /\ call.op = "calculateAttributeSubarrays"
  /\ "vel" \in DOMAIN attributes
  /\ "vel" \in DOMAIN instances[call.inst].attributes
  /\ ~Detached(instances[call.inst], "vel", attributes)
  /\ \E j \in Ids : j > call.inst /\ "vel" \notin DOMAIN instances[j].attributes

\* The attribute is per-instance by kind and by size.
DeclaredPerInstance(attr) == attr.instanced /\ IsPerInstance(attr)

\* The buffer of attribute n went through a compaction in this step: it is
\* flagged for upload and its tail is zero-filled.
Compacted(n) ==
  /\ attributes'[n].needsUpdate
  /\ Len(attributes'[n].array) = Len(attributes[n].array)
  /\ attributes'[n].array[Len(attributes'[n].array)] = 0

\* C26: unregistering an instance compacts every per-instance attribute the
\* Emitter has at that moment, those declared after the instance was made
\* and never recomputed by it included.
C26_UnregisterCompactsEveryDeclared ==
  [][Unregistered =>
       \A n \in DOMAIN attributes :
         DeclaredPerInstance(attributes[n]) => Compacted(n)]_vars

\* ------------------------------------------------------- generator calls
\* ceil(a / b) for a >= 0, b > 0.
CeilDiv(a, b) == (a + b - 1) \div b

\* C29: a generator passed to fillAttribute is invoked with 0, 1, 2, ... in
\* increasing order, exactly ceil(L / w) times for a target of length L and
\* an output of width w (1 for a scalar), by the Emitter's fillAttribute
\* and by an instance's.
C29_GeneratorCalledCeilTimes ==
  [][(FillCalled /\ HasTarget /\ call'.value.kind = "fn") =>
       call'.args =
         [k \in 1..CeilDiv(Len(TargetBefore), Len(GenValue(call'.value.g, 0))) |-> k - 1]]_vars

\* ---------------------------------------------------------- time claims
\* The step is an update(), called by the application or by the scheduler.
Ticked == call'.op \in {"update", "tick"}

\* C22: the first update() after autoUpdate went from false to true, or
\* after a construction with autoUpdate, adds zero to the time uniform,
\* also when update() ran before during a period with autoUpdate false.
C22_FirstTickInAutoAddsZero ==
  [][(Ticked /\ fresh) => time' = time]_vars

\* C23: setAutoUpdate(true) called while autoUpdate is false queues exactly
\* one callback with requestAnimationFrame at once; setAutoUpdate(false)
\* queues none.  Neither touches the uniform or the timestamp.
C23_SetAutoUpdateSchedules ==
  [][call'.op = "setAutoUpdate" =>
       /\ autoUpdate' = (call'.arg = 1)
       /\ (call'.arg = 1 /\ ~autoUpdate) => pending' = pending + 1
       /\ call'.arg = 0 => pending' = pending
       /\ time' = time /\ timestamp' = timestamp]_vars

\* setAutoUpdate(true) was called with autoUpdate false, after an update()
\* had run, and its callback is the only one queued.
C23_Witness ==
  /\ call.op = "setAutoUpdate" /\ call.arg = 1 /\ ~call.mode
  /\ autoUpdate /\ pending = 1 /\ timestamp # 0

\* C24: after setAutoUpdate(false) ends a period with autoUpdate true, at
\* most one more queued callback adds time to the uniform, whatever
\* setAutoUpdate and update calls came before.
C24_AtMostOneLateTick == late <= 1

\* C30: every update() that finds a timestamp adds now - timestamp to the
\* uniform (in thousandths) and sets the timestamp to now, so the uniform
\* is the last update's timestamp minus the first update's, however many
\* callbacks are queued and however the application's calls interleave.
C30_TimeIsLastMinusFirst ==
  /\ [][(Ticked /\ timestamp # 0) =>
          (time' = time + (now - timestamp) /\ timestamp' = now)]_vars
  /\ [](time = timestamp - first)

\* Two callbacks are queued, one of them has just run, and the uniform
\* holds the time of two clock steps.
C30_Witness ==
  /\ call.op = "tick" /\ pending >= 2
  /\ first # 0 /\ time >= 2 /\ time = timestamp - first

\* The callbacks an update() step queued: a callback that runs leaves the
\* queue first.
Queued ==
  IF call'.op = "tick" THEN pending' - (pending - 1) ELSE pending' - pending

\* C31: update() changes the uniform and the timestamp in the same way
\* with autoUpdate set and unset; the mode decides only whether it queues
\* the next callback (one when set, none when unset).
C31_UpdateSameInBothModes ==
  [][Ticked =>
       /\ time' - time = (IF timestamp # 0 THEN now - timestamp ELSE 0)
       /\ timestamp' = now
       /\ autoUpdate' = autoUpdate
       /\ Queued = (IF autoUpdate THEN 1 ELSE 0)]_vars

\* The application called update() with autoUpdate unset: time was added
\* and nothing is queued.
C31_Witness ==
  /\ call.op = "update" /\ ~call.mode
  /\ ~autoUpdate /\ pending = 0 /\ time > 0

\* ------------------------------------------------ unregistration frames
\* C32: unregistering an instance leaves the contents of every shared
\* attribute's buffer unchanged; only per-instance buffers are compacted
\* and zero-filled.
C32_UnregisterKeepsShared ==
  [][Unregistered =>
       \A n \in DOMAIN attributes :
         ~IsPerInstance(attributes[n]) => attributes'[n].array = attributes[n].array]_vars

\* C33: unregistering an instance whose view of a per-instance attribute
\* is empty leaves that attribute's buffer contents unchanged.
C33_EmptyViewUnregisterKeepsBuffer ==
  [][Unregistered =>
       \A n \in PerAttrs(call'.inst) :
         RecLen(call'.inst, n) = 0 => attributes'[n].array = attributes[n].array]_vars

\* C34: a registered instance starts at the same item index in every
\* per-instance attribute it has a range in (recorded offset / itemSize),
\* attributes declared after it was made and picked up by a later
\* calculateAttributeSubarrays included.
C34_SameItemIndexInEveryAttribute ==
  \A i \in knownInstances : \A a, b \in PerAttrs(i) \cap DOMAIN attributes :
    RecStart(i, a) * attributes[b].itemSize = RecStart(i, b) * attributes[a].itemSize

\* ------------------------------------------------------ scheduler claims
\* C35: at every moment at most one callback of the Emitter is queued with
\* the frame scheduler, whatever constructor, setAutoUpdate and update()
\* calls and callback runs came before.
C35_AtMostOnePending == pending <= 1

\* C36: while autoUpdate is set, by the constructor or by
\* setAutoUpdate(true), at least one callback is queued; with a scheduler
\* that runs what it is handed, a callback runs after every other event
\* for as long as autoUpdate stays set.
C36_ChainAliveWhileAuto ==
  /\ [](autoUpdate => pending >= 1)
  /\ (autoUpdate /\ call.op # "tick") ~> (call.op = "tick" \/ ~autoUpdate)

\* A callback ran with autoUpdate set, added time, and its successor is
\* queued.
C36_Witness ==
  /\ call.op = "tick" /\ call.mode
  /\ autoUpdate /\ pending >= 1 /\ time > 0

\* C37: after setAutoUpdate(false), unless setAutoUpdate(true) or update()
\* is called later, the queue of callbacks runs empty; from then on the
\* queue stays empty and the uniform keeps its value.
C37_QuiescesAfterManual ==
  /\ (~autoUpdate) ~> (pending = 0 \/ autoUpdate)
  /\ [][(~autoUpdate /\ pending = 0) =>
          /\ (pending' # 0 => call'.op = "setAutoUpdate")
          /\ (time' # time => call'.op = "update")]_vars

\* The last queued callback ran after setAutoUpdate(false) and added time;
\* nothing is queued any more.
C37_Witness ==
  /\ call.op = "tick" /\ ~call.mode
  /\ ~autoUpdate /\ pending = 0 /\ time > 0

\* ----------------------------------------------------------- termination
\* C38: fillAttribute returns (normally or with an error) for every value
\* on every target, a vector without elements and a generator that returns
\* one on a non-empty target included.
C38_FillTerminates ==
  [][FillCalled => raised' # "diverges"]_vars

\* ---------------------------------------------------------- frame claims
\* C39: an update() changes only the time uniform, the timestamp and the
\* queue of callbacks: every attribute's buffer and dirty flag, the active
\* item count, knownInstances and every instance's recorded offsets and
\* views stay as they are, however it interleaves with registrations,
\* unregistrations and fills.
C39_TickKeepsBuffers ==
  [][Ticked =>
       /\ UNCHANGED <<attributes, instanceCount, knownInstances, instances>>
       /\ autoUpdate' = autoUpdate
       /\ raised' = "none"]_vars

\* A callback added time to the uniform while one instance is registered,
\* another was unregistered, a fill was made and a dirty flag is set.
C39_Witness ==
  /\ call.op = "tick" /\ time > 0
  /\ knownInstances # {} /\ Ids \ knownInstances # {}
  /\ fills > 0
  /\ \E n \in DOMAIN attributes : attributes[n].needsUpdate

\* Element k (from 0) of attribute n lies in the range instance i recorded.
InRange(i, n, k) == RecStart(i, n) <= k /\ k < RecEnd(i, n)

\* C40: an instance's fillAttribute on a per-instance attribute changes
\* only elements within the range the instance recorded for it,
\* [attributeIndices[name], attributeIndices[name] + view length); every
\* element outside and every other attribute's buffer stay as they are.
C40_InstanceFillStaysInRange ==
  [][(call'.op = "instance.fillAttribute" /\ call'.name \in PerAttrs(call'.inst)) =>
       \A n \in DOMAIN attributes :
         /\ n \in DOMAIN attributes'
         /\ Len(attributes'[n].array) = Len(attributes[n].array)
         /\ \A k \in 0..(Len(attributes[n].array) - 1) :
              (n # call'.name \/ ~InRange(call'.inst, n, k)) =>
                attributes'[n].array[k + 1] = attributes[n].array[k + 1]]_vars

\* An instance whose range starts behind another instance's filled it with
\* i -> 2 i: its first element holds 0, the buffer's first element still
\* holds the other instance's data.
C40_Witness ==
  /\ call.op = "instance.fillAttribute" /\ call.name \in PerAttrs(call.inst)
  /\ call.value.kind = "fn" /\ call.value.g = "double"
  /\ RecStart(call.inst, call.name) > 0 /\ RecLen(call.inst, call.name) > 0
  /\ attributes[call.name].array[RecStart(call.inst, call.name) + 1] = 0
  /\ attributes[call.name].array[1] # 0

====
